---------------------------- MODULE Spec2Model ----------------------------
(***************************************************************************)
(* A model of patternMatch.cpp: the glob pattern compiler                  *)
(* (SimpleStateMachine::setPattern), the backtracking matcher              *)
(* (SimpleStateMachine::match / tryMatchPatternPart) and the pattern       *)
(* normalisation done by main (standardizePattern).                        *)
(*                                                                         *)
(* A std::string is a sequence of one-character strings; C++ positions are *)
(* 0-based, so position pos of the string s is s[pos + 1].  Node indices   *)
(* are kept 0-based as in the source: node i is nodesArray[i + 1].         *)
(***************************************************************************)
EXTENDS Integers, Sequences, FiniteSets, TLC

(***************************************************************************)
(* Bounds of the model.                                                    *)
(***************************************************************************)
\* Spec: the longest pattern and the longest path passed to a machine
MaxPatLen == 2
MaxPathLen == 3
\* SpecFn, SpecMain: the longest pattern and the longest path of one run
MaxFnPatLen == 4
MaxFnPathLen == 4
\* SpecGlob: the longest A and B, the most segments, the longest segment
MaxLit == 2
MaxSegs == 2
MaxSegLen == 1
\* SpecSort: the *s that follow "*a" in a pattern
MaxStars == 15
\* SpecSearch: the characters that follow "/**" in a pattern
MaxTail == 1

(***************************************************************************)
(* Program constants.                                                      *)
(***************************************************************************)
ERROR_NODE_IDX == -1
SUCCESS_NODE_IDX == -2
PATH_SEPARATOR == "/"
\* the character '\0' that std::string yields at position length()
END_OF_LINE == "NUL"

\* enum SymbolType: the enumerators' values are the sort keys of the edges
eOneSymbol == 0
eEndOfLine == 1
eAnyPathSegmentSymbol == 2
eAnySymbol == 3

(***************************************************************************)
(* Strings.                                                                *)
(***************************************************************************)
\* str[pos] for 0 <= pos <= length(): the terminator at pos = length()
charAt(str, pos) ==
  IF pos = Len(str) THEN END_OF_LINE ELSE str[pos + 1]

symbolIs(str, pos, c) ==
  IF pos < 0 \/ pos > Len(str)
    THEN FALSE
    ELSE charAt(str, pos) = c

standardizePattern(pattern) ==
  LET len == Len(pattern)
      prefixed ==
        IF ~symbolIs(pattern, 0, PATH_SEPARATOR)
          THEN IF symbolIs(pattern, 0, "*") /\ symbolIs(pattern, 1, "*")
                 THEN <<"/">> \o pattern
                 ELSE <<"/", "*", "*", "/">> \o pattern
          ELSE pattern
  IN  \* len was read before the prefix was added
      IF symbolIs(prefixed, len - 1, PATH_SEPARATOR)
        THEN prefixed \o <<"*", "*">>
        ELSE prefixed

(***************************************************************************)
(* Symbols, edges and nodes.  An edge is [symbol, nextNodeId], a symbol is *)
(* [stype, sym], a node is the sequence of its edges.                      *)
(***************************************************************************)
\* InputSymbol(SymbolType t): sym is 0
InputSymbol(t) == [stype |-> t, sym |-> END_OF_LINE]

\* InputSymbol as addEdge(const char c, ...) fills it in
OneSymbol(c) == [stype |-> eOneSymbol, sym |-> c]

InputSymbol_match(symbol, s) ==
  CASE symbol.stype = eOneSymbol -> s = symbol.sym
    [] symbol.stype = eEndOfLine -> s = END_OF_LINE
    [] symbol.stype = eAnySymbol -> TRUE
    [] symbol.stype = eAnyPathSegmentSymbol ->
         s # PATH_SEPARATOR /\ s # END_OF_LINE

compare_edges_priority(e1, e2) == e1.symbol.stype < e2.symbol.stype

\* the edges of one priority, in their order in the list
EdgesOfType(edges, t) == SelectSeq(edges, LAMBDA e : e.symbol.stype = t)

\* std::sort sorts a range of at most this many elements by insertion alone
SortInsertionMax == 16

\* std::sort by compare_edges_priority of a list of at most SortInsertionMax
\* elements: edges of equal priority keep their order.
SortEdges(edges) ==
  EdgesOfType(edges, eOneSymbol) \o EdgesOfType(edges, eEndOfLine)
    \o EdgesOfType(edges, eAnyPathSegmentSymbol) \o EdgesOfType(edges, eAnySymbol)

\* Node::addEdge with the order a list of at most SortInsertionMax edges gets;
\* NodesOutcomes gives the orders of a longer list
Node_addEdge(edges, symbol, nodeId) ==
  SortEdges(Append(edges, [symbol |-> symbol, nextNodeId |-> nodeId]))

\* s without its element i
RemoveAt(s, i) == SubSeq(s, 1, i - 1) \o SubSeq(s, i + 1, Len(s))

\* the orders of edges in which the priorities never decrease
RECURSIVE Arrangements(_)
Arrangements(edges) ==
  IF edges = <<>> THEN {<<>>}
  ELSE LET least == {i \in 1..Len(edges) :
                       \A j \in 1..Len(edges) :
                         ~compare_edges_priority(edges[j], edges[i])}
           firsts == {i \in least : \A j \in 1..(i - 1) : edges[j] # edges[i]}
       IN  UNION {{<<edges[i]>> \o t : t \in Arrangements(RemoveAt(edges, i))} :
                  i \in firsts}

\* what std::sort may leave: std::sort is not a stable sort, so past
\* SortInsertionMax elements the order of edges of equal priority is any
StdSortOutcomes(edges) ==
  IF Len(edges) <= SortInsertionMax
    THEN {SortEdges(edges)}
    ELSE Arrangements(edges)

\* the node collections a step may leave, sorted being the collection with
\* every node that got an edge sorted stably: the nodes that got an edge are
\* those that differ from before
RECURSIVE NodesOutcomes(_, _, _)
NodesOutcomes(before, sorted, n) ==
  IF n = 0 THEN {<<>>}
  ELSE LET node == IF n <= Len(before) /\ before[n] = sorted[n]
                     THEN {sorted[n]}
                     ELSE StdSortOutcomes(sorted[n])
       IN  {Append(g, e) : g \in NodesOutcomes(before, sorted, n - 1), e \in node}

edgeCount(edges) == Len(edges)

\* Node::selectEdge: whether edge edgeIdx exists and matches sym
selectEdge(edges, edgeIdx, sym) ==
  IF edgeIdx < 0 \/ edgeIdx >= edgeCount(edges)
    THEN FALSE
    ELSE InputSymbol_match(edges[edgeIdx + 1].symbol, sym)

\* the nextNodeId that a successful selectEdge stores
selectedNode(edges, edgeIdx) == edges[edgeIdx + 1].nextNodeId

(***************************************************************************)
(* SimpleStateMachine: the node collection and its private helpers.        *)
(***************************************************************************)
\* nodesArray after createNewNode(); the index returned is lastNodeIdx of it
createNewNode(nodes) == Append(nodes, <<>>)

lastNodeIdx(nodes) == Len(nodes) - 1

addEdge(nodes, fromNodeIdx, symbol, toNodeIdx) ==
  [nodes EXCEPT ![fromNodeIdx + 1] = Node_addEdge(@, symbol, toNodeIdx)]

(***************************************************************************)
(* setPattern.  c = [nodes, patternPos, previousStarNodeIdx] is the state  *)
(* of the scan at the top of a loop iteration; each case returns the state *)
(* after the iteration, the loop's patternPos++ included.                  *)
(***************************************************************************)
\* setPatternBegin that drops the nodes the machine holds
setPatternBeginCleared(nodes) ==
  [nodes |-> <<<<>>>>, patternPos |-> 0, previousStarNodeIdx |-> -1]

setPatternBegin(nodes) ==
  [nodes |-> Append(nodes, <<>>), patternPos |-> 0, previousStarNodeIdx |-> -1]

\* separatorCase that never skips the separator that follows "**"
separatorCaseNoSkip(pattern, c) ==
  LET currentNodeIdx == lastNodeIdx(c.nodes)
      created == createNewNode(c.nodes)
      nextNodeIdx == lastNodeIdx(created)
      linked == addEdge(created, currentNodeIdx, OneSymbol(PATH_SEPARATOR), nextNodeIdx)
  IN  IF symbolIs(pattern, c.patternPos + 1, "*") /\ symbolIs(pattern, c.patternPos + 2, "*")
        THEN [nodes |-> addEdge(linked, nextNodeIdx, InputSymbol(eAnySymbol), nextNodeIdx),
              previousStarNodeIdx |-> nextNodeIdx,
              patternPos |-> c.patternPos + 2 + 1]
        ELSE [nodes |-> linked,
              previousStarNodeIdx |-> -1,
              patternPos |-> c.patternPos + 1]

separatorCase(pattern, c) ==
  LET currentNodeIdx == lastNodeIdx(c.nodes)
      created == createNewNode(c.nodes)
      nextNodeIdx == lastNodeIdx(created)
      linked == addEdge(created, currentNodeIdx, OneSymbol(PATH_SEPARATOR), nextNodeIdx)
  IN  IF symbolIs(pattern, c.patternPos + 1, "*") /\ symbolIs(pattern, c.patternPos + 2, "*")
        THEN [nodes |-> addEdge(linked, nextNodeIdx, InputSymbol(eAnySymbol), nextNodeIdx),
              previousStarNodeIdx |-> nextNodeIdx,
              patternPos |->
                IF symbolIs(pattern, c.patternPos + 3, PATH_SEPARATOR)
                  THEN c.patternPos + 3 + 1
                  ELSE c.patternPos + 2 + 1]
        ELSE [nodes |-> linked,
              previousStarNodeIdx |-> -1,
              patternPos |-> c.patternPos + 1]

\* questionCase with an Any edge, which also takes a separator
questionCaseAny(pattern, c) ==
  LET currentNodeIdx == lastNodeIdx(c.nodes)
      created == createNewNode(c.nodes)
      nextNodeIdx == lastNodeIdx(created)
  IN  [nodes |-> addEdge(created, currentNodeIdx, InputSymbol(eAnySymbol), nextNodeIdx),
       previousStarNodeIdx |-> -1,
       patternPos |-> c.patternPos + 1]

questionCase(pattern, c) ==
  LET currentNodeIdx == lastNodeIdx(c.nodes)
      created == createNewNode(c.nodes)
      nextNodeIdx == lastNodeIdx(created)
  IN  [nodes |-> addEdge(created, currentNodeIdx, InputSymbol(eAnyPathSegmentSymbol), nextNodeIdx),
       previousStarNodeIdx |-> -1,
       patternPos |-> c.patternPos + 1]

\* starCase with an Any self-loop, which also takes a separator
starCaseAny(pattern, c) ==
  LET currentNodeIdx == lastNodeIdx(c.nodes)
  IN  [nodes |-> addEdge(c.nodes, currentNodeIdx, InputSymbol(eAnySymbol), currentNodeIdx),
       previousStarNodeIdx |-> currentNodeIdx,
       patternPos |-> c.patternPos + 1]

starCase(pattern, c) ==
  LET currentNodeIdx == lastNodeIdx(c.nodes)
  IN  [nodes |-> addEdge(c.nodes, currentNodeIdx, InputSymbol(eAnyPathSegmentSymbol), currentNodeIdx),
       previousStarNodeIdx |-> currentNodeIdx,
       patternPos |-> c.patternPos + 1]

\* defaultCase whose back edge is an Any edge, which also takes a separator
defaultCaseAnyBack(pattern, c) ==
  LET sym == charAt(pattern, c.patternPos)
      currentNodeIdx == lastNodeIdx(c.nodes)
      created == createNewNode(c.nodes)
      nextNodeIdx == lastNodeIdx(created)
      linked == addEdge(created, currentNodeIdx, OneSymbol(sym), nextNodeIdx)
  IN  [nodes |->
         IF c.previousStarNodeIdx >= 0
           THEN addEdge(linked, nextNodeIdx, InputSymbol(eAnySymbol),
                        c.previousStarNodeIdx)
           ELSE linked,
       previousStarNodeIdx |-> c.previousStarNodeIdx,
       patternPos |-> c.patternPos + 1]

\* defaultCase reading currentNodeIdx after the new node was created
defaultCaseLateIndex(pattern, c) ==
  LET sym == charAt(pattern, c.patternPos)
      created == createNewNode(c.nodes)
      currentNodeIdx == lastNodeIdx(created)
      nextNodeIdx == lastNodeIdx(created)
      linked == addEdge(created, currentNodeIdx, OneSymbol(sym), nextNodeIdx)
  IN  [nodes |->
         IF c.previousStarNodeIdx >= 0
           THEN addEdge(linked, nextNodeIdx, InputSymbol(eAnyPathSegmentSymbol),
                        c.previousStarNodeIdx)
           ELSE linked,
       previousStarNodeIdx |-> c.previousStarNodeIdx,
       patternPos |-> c.patternPos + 1]

defaultCase(pattern, c) ==
  LET sym == charAt(pattern, c.patternPos)
      currentNodeIdx == lastNodeIdx(c.nodes)
      created == createNewNode(c.nodes)
      nextNodeIdx == lastNodeIdx(created)
      linked == addEdge(created, currentNodeIdx, OneSymbol(sym), nextNodeIdx)
  IN  [nodes |->
         IF c.previousStarNodeIdx >= 0
           THEN addEdge(linked, nextNodeIdx, InputSymbol(eAnyPathSegmentSymbol),
                        c.previousStarNodeIdx)
           ELSE linked,
       previousStarNodeIdx |-> c.previousStarNodeIdx,
       patternPos |-> c.patternPos + 1]

\* the switch on pattern[patternPos]
setPatternIter(pattern, c) ==
  LET sym == charAt(pattern, c.patternPos)
  IN  CASE sym = PATH_SEPARATOR -> separatorCase(pattern, c)
        [] sym = "?" -> questionCase(pattern, c)
        [] sym = "*" -> starCase(pattern, c)
        [] OTHER -> defaultCase(pattern, c)

\* setPatternEnd whose End edge leads to the index after the last node's
setPatternEndPastLast(nodes) ==
  addEdge(nodes, lastNodeIdx(nodes), InputSymbol(eEndOfLine), lastNodeIdx(nodes) + 1)

\* the End edge added after the loop
setPatternEnd(nodes) ==
  addEdge(nodes, lastNodeIdx(nodes), InputSymbol(eEndOfLine), SUCCESS_NODE_IDX)

RECURSIVE setPatternLoop(_, _)
setPatternLoop(pattern, c) ==
  IF c.patternPos < Len(pattern)
    THEN setPatternLoop(pattern, setPatternIter(pattern, c))
    ELSE c

\* nodesArray after setPattern(pattern) on a machine holding nodes
setPattern(nodes, pattern) ==
  IF pattern = <<>>
    THEN nodes
    ELSE setPatternEnd(setPatternLoop(pattern, setPatternBegin(nodes)).nodes)

(***************************************************************************)
(* match and tryMatchPatternPart as functions of the graph and the path.   *)
(***************************************************************************)
RECURSIVE tryMatchPatternPart(_, _, _, _), tryEdges(_, _, _, _, _)
RECURSIVE tryEdgesGreedy(_, _, _, _, _)
\* tryEdges that returns what the first matching edge gives, trying no other
tryEdgesGreedy(nodes, nodeIdx, path, pathPos, edgeIdx) ==
  LET currentNode == nodes[nodeIdx + 1]
      sym == charAt(path, pathPos)
  IN  IF edgeIdx >= edgeCount(currentNode)
        THEN FALSE
        ELSE IF selectEdge(currentNode, edgeIdx, sym)
               THEN tryMatchPatternPart(nodes, selectedNode(currentNode, edgeIdx),
                                        path, pathPos + 1)
               ELSE tryEdgesGreedy(nodes, nodeIdx, path, pathPos, edgeIdx + 1)

\* the for loop of tryMatchPatternPart from edgeIdx on
tryEdges(nodes, nodeIdx, path, pathPos, edgeIdx) ==
  LET currentNode == nodes[nodeIdx + 1]
      sym == charAt(path, pathPos)
  IN  IF edgeIdx >= edgeCount(currentNode)
        THEN FALSE
        ELSE IF selectEdge(currentNode, edgeIdx, sym)
                  /\ tryMatchPatternPart(nodes, selectedNode(currentNode, edgeIdx),
                                         path, pathPos + 1)
               THEN TRUE
               ELSE tryEdges(nodes, nodeIdx, path, pathPos, edgeIdx + 1)

tryMatchPatternPart(nodes, nodeIdx, path, pathPos) ==
  IF nodeIdx = SUCCESS_NODE_IDX THEN TRUE
  ELSE IF nodeIdx = ERROR_NODE_IDX THEN FALSE
  ELSE IF pathPos > Len(path) THEN FALSE
  ELSE tryEdges(nodes, nodeIdx, path, pathPos, 0)

\* matchEntry with the empty machine reported as no match
matchEntryNoThrow(nodes, path) ==
  IF path = <<>> THEN "false"
  ELSE IF nodes = <<>> THEN "false"
  ELSE "search"

\* what match does before it starts the search: "false" and "throw" end the
\* call, "search" goes on to tryMatchPatternPart(0, path, 0)
matchEntry(nodes, path) ==
  IF path = <<>> THEN "false"
  ELSE IF nodes = <<>> THEN "throw"
  ELSE "search"

\* the outcome of match(path): "true", "false" or "throw"
match(nodes, path) ==
  IF matchEntry(nodes, path) = "search"
    THEN IF tryMatchPatternPart(nodes, 0, path, 0) THEN "true" ELSE "false"
    ELSE matchEntry(nodes, path)

(***************************************************************************)
(* The inputs a caller may pass.                                           *)
(***************************************************************************)
PatternChars == {"/", "*", "?", "a", "b"}
PathChars == {"/", "a", "b"}
\* the characters of the segments s1..sk of SpecGlob; "a" is also one of the
\* characters of A and B, "b" is theirs alone
SegmentChars == {"a"}

\* the strings over chars of length at most n
Strings(chars, n) == UNION {[1..k -> chars] : k \in 0..n}

\* Spec: what one machine is given, over several calls
Patterns == Strings({"/", "*", "?", "a"}, MaxPatLen)
Paths == Strings(PathChars, MaxPathLen)
\* a machine takes a further pattern while its nodes stay within MaxNodes
MaxNodes == MaxPatLen + 1

(***************************************************************************)
(* The state of a SimpleStateMachine and of the calls made on it.          *)
(*   nodesArray           the member nodesArray                            *)
(*   pc                   "idle", or the method that is running            *)
(*   pattern              the argument of the current or last setPattern   *)
(*   patternPos, previousStarNodeIdx   the locals of setPattern            *)
(*   path                 the argument of the current or last match        *)
(*   stack                the active calls of tryMatchPatternPart, each    *)
(*                        [nodeIdx, pathPos, edgeIdx], outermost first     *)
(*   rv                   the value a tryMatchPatternPart call has just    *)
(*                        returned, "none" when no return is pending       *)
(*   ret                  how the last call ended: "void" (setPattern),    *)
(*                        "true", "false", "throw" (match)                 *)
(*   prev                 history: the outcome of the preceding call when  *)
(*                        it was a match of the same path, else "none"     *)
(*   compiled             history: the non-empty patterns compiled so far  *)
(*   arg                  the pattern as the caller received it, before    *)
(*                        standardizePattern (main's argv[2])              *)
(***************************************************************************)
VARIABLES nodesArray, pc, pattern, patternPos, previousStarNodeIdx, path,
          stack, rv, ret, prev, compiled, arg

vars == <<nodesArray, pc, pattern, patternPos, previousStarNodeIdx, path,
          stack, rv, ret, prev, compiled, arg>>

MatchOutcomes == {"true", "false", "throw"}

Init ==
  /\ nodesArray = <<>>
  /\ pc = "idle"
  /\ pattern = <<>>
  /\ patternPos = 0
  /\ previousStarNodeIdx = -1
  /\ path = <<>>
  /\ stack = <<>>
  /\ rv = "none"
  /\ ret = "none"
  /\ prev = "none"
  /\ compiled = <<>>
  /\ arg = <<>>

(***************************************************************************)
(* setPattern, one step per loop iteration.                                *)
(***************************************************************************)
\* the call, up to the first loop test: the empty pattern returns at once
SetPatternEnter(p) ==
  /\ pc = "idle"
  /\ pattern' = p
  /\ prev' = "none"
  /\ IF p = <<>>
       THEN /\ ret' = "void"
            /\ UNCHANGED <<nodesArray, pc, patternPos, previousStarNodeIdx>>
       ELSE /\ nodesArray' = setPatternBegin(nodesArray).nodes
            /\ patternPos' = setPatternBegin(nodesArray).patternPos
            /\ previousStarNodeIdx' = setPatternBegin(nodesArray).previousStarNodeIdx
            /\ pc' = "setPattern"
            /\ ret' = "none"
  /\ UNCHANGED <<path, stack, rv, compiled, arg>>

\* Spec: setPattern(p) on a machine that stays within MaxNodes
SetPatternCall(p) ==
  /\ Len(nodesArray) + Len(p) + 1 <= MaxNodes
  /\ SetPatternEnter(p)

\* one iteration of the for loop
SetPatternStep ==
  /\ pc = "setPattern"
  /\ patternPos < Len(pattern)
  /\ LET c == setPatternIter(pattern,
                [nodes |-> nodesArray, patternPos |-> patternPos,
                 previousStarNodeIdx |-> previousStarNodeIdx])
     IN  /\ nodesArray' \in NodesOutcomes(nodesArray, c.nodes, Len(c.nodes))
         /\ patternPos' = c.patternPos
         /\ previousStarNodeIdx' = c.previousStarNodeIdx
  /\ UNCHANGED <<pc, pattern, path, stack, rv, ret, prev, compiled, arg>>

\* the loop has ended: the End edge, and the return
SetPatternReturn ==
  /\ pc = "setPattern"
  /\ patternPos >= Len(pattern)
  /\ nodesArray' \in NodesOutcomes(nodesArray, setPatternEnd(nodesArray),
                                   Len(nodesArray))
  /\ pc' = "idle"
  /\ ret' = "void"
  /\ patternPos' = 0
  /\ previousStarNodeIdx' = -1
  /\ compiled' = Append(compiled, pattern)
  /\ UNCHANGED <<pattern, path, stack, rv, prev, arg>>

(***************************************************************************)
(* match, one step per line of tryMatchPatternPart executed.               *)
(***************************************************************************)
top == stack[Len(stack)]
pop == SubSeq(stack, 1, Len(stack) - 1)

Frame(nodeIdx, pathPos) == [nodeIdx |-> nodeIdx, pathPos |-> pathPos, edgeIdx |-> 0]

\* the three tests at the head of tryMatchPatternPart: "true" or "false" when
\* one of them returns, "none" when the call goes on to its loop
tryMatchHead(f) ==
  IF f.nodeIdx = SUCCESS_NODE_IDX THEN "true"
  ELSE IF f.nodeIdx = ERROR_NODE_IDX THEN "false"
  ELSE IF f.pathPos > Len(path) THEN "false"
  ELSE "none"

\* match(x) up to the call of tryMatchPatternPart(0, path, 0)
MatchCall(x) ==
  /\ pc = "idle"
  /\ path' = x
  /\ prev' = IF x = path /\ ret \in MatchOutcomes THEN ret ELSE "none"
  /\ IF matchEntry(nodesArray, x) = "search"
       THEN /\ stack' = <<Frame(0, 0)>>
            /\ pc' = "match"
            /\ ret' = "none"
       ELSE /\ ret' = matchEntry(nodesArray, x)
            /\ UNCHANGED <<stack, pc>>
  /\ UNCHANGED <<nodesArray, pattern, patternPos, previousStarNodeIdx, rv,
                 compiled, arg>>

\* a call returns from one of its first three tests
TryMatchHeadReturn ==
  /\ pc = "match" /\ rv = "none" /\ stack # <<>>
  /\ tryMatchHead(top) # "none"
  /\ rv' = tryMatchHead(top)
  /\ stack' = pop
  /\ UNCHANGED <<nodesArray, pc, pattern, patternPos, previousStarNodeIdx,
                 path, ret, prev, compiled, arg>>

\* TryMatchSelectEdge whose recursive call is made at the caller's position
TryMatchSelectEdgeSamePos ==
  /\ pc = "match" /\ rv = "none" /\ stack # <<>>
  /\ tryMatchHead(top) = "none"
  /\ LET currentNode == nodesArray[top.nodeIdx + 1]
         sym == charAt(path, top.pathPos)
     IN  /\ top.edgeIdx < edgeCount(currentNode)
         /\ IF selectEdge(currentNode, top.edgeIdx, sym)
              THEN stack' = Append(stack,
                              Frame(selectedNode(currentNode, top.edgeIdx),
                                    top.pathPos))
              ELSE stack' = [stack EXCEPT ![Len(stack)].edgeIdx = @ + 1]
  /\ UNCHANGED <<nodesArray, pc, pattern, patternPos, previousStarNodeIdx,
                 path, rv, ret, prev, compiled, arg>>

\* the loop body: selectEdge on the edge edgeIdx, and the recursive call
\* when it matches
TryMatchSelectEdge ==
  /\ pc = "match" /\ rv = "none" /\ stack # <<>>
  /\ tryMatchHead(top) = "none"
  /\ LET currentNode == nodesArray[top.nodeIdx + 1]
         sym == charAt(path, top.pathPos)
     IN  /\ top.edgeIdx < edgeCount(currentNode)
         /\ IF selectEdge(currentNode, top.edgeIdx, sym)
              THEN stack' = Append(stack,
                              Frame(selectedNode(currentNode, top.edgeIdx),
                                    top.pathPos + 1))
              ELSE stack' = [stack EXCEPT ![Len(stack)].edgeIdx = @ + 1]
  /\ UNCHANGED <<nodesArray, pc, pattern, patternPos, previousStarNodeIdx,
                 path, rv, ret, prev, compiled, arg>>

\* the loop has tried every edge: return false
TryMatchExhausted ==
  /\ pc = "match" /\ rv = "none" /\ stack # <<>>
  /\ tryMatchHead(top) = "none"
  /\ top.edgeIdx >= edgeCount(nodesArray[top.nodeIdx + 1])
  /\ rv' = "false"
  /\ stack' = pop
  /\ UNCHANGED <<nodesArray, pc, pattern, patternPos, previousStarNodeIdx,
                 path, ret, prev, compiled, arg>>

\* TryMatchResume remembering a failed edge by redirecting it to ERROR
TryMatchResumeMarking ==
  /\ pc = "match" /\ rv # "none" /\ stack # <<>>
  /\ IF rv = "true"
       THEN /\ stack' = pop
            /\ rv' = "true"
            /\ UNCHANGED nodesArray
       ELSE /\ stack' = [stack EXCEPT ![Len(stack)].edgeIdx = @ + 1]
            /\ rv' = "none"
            /\ nodesArray' =
                 [nodesArray EXCEPT
                    ![top.nodeIdx + 1][top.edgeIdx + 1].nextNodeId = ERROR_NODE_IDX]
  /\ UNCHANGED <<pc, pattern, patternPos, previousStarNodeIdx,
                 path, ret, prev, compiled, arg>>

\* the caller's loop gets the value of the recursive call: true returns true,
\* false goes on with the next edge
TryMatchResume ==
  /\ pc = "match" /\ rv # "none" /\ stack # <<>>
  /\ IF rv = "true"
       THEN /\ stack' = pop
            /\ rv' = "true"
       ELSE /\ stack' = [stack EXCEPT ![Len(stack)].edgeIdx = @ + 1]
            /\ rv' = "none"
  /\ UNCHANGED <<nodesArray, pc, pattern, patternPos, previousStarNodeIdx,
                 path, ret, prev, compiled, arg>>

\* match returns what tryMatchPatternPart(0, path, 0) returned
MatchReturn ==
  /\ pc = "match" /\ rv # "none" /\ stack = <<>>
  /\ ret' = rv
  /\ rv' = "none"
  /\ pc' = "idle"
  /\ UNCHANGED <<nodesArray, pattern, patternPos, previousStarNodeIdx, path,
                 stack, prev, compiled, arg>>

Next ==
  \/ \E p \in Patterns : SetPatternCall(p)
  \/ SetPatternStep
  \/ SetPatternReturn
  \/ \E x \in Paths : MatchCall(x)
  \/ TryMatchHeadReturn
  \/ TryMatchSelectEdge
  \/ TryMatchExhausted
  \/ TryMatchResume
  \/ MatchReturn

Spec == Init /\ [][Next]_vars

(***************************************************************************)
(* A fresh machine compiling one pattern with many *s in one segment, the  *)
(* patterns that give a node more than SortInsertionMax edges.             *)
(***************************************************************************)
Stars(k) == [i \in 1..k |-> "*"]

SortPatterns ==
  {<<"*", "a">> \o Stars(k) \o t : k \in 0..MaxStars, t \in {<<>>, <<"?">>}}

\* setPattern(p) on a machine that has compiled nothing yet
SetPatternFresh(p) ==
  /\ nodesArray = <<>>
  /\ SetPatternEnter(p)

NextSort ==
  \/ \E p \in SortPatterns : SetPatternFresh(p)
  \/ SetPatternStep
  \/ SetPatternReturn

SpecSort == Init /\ [][NextSort]_vars

(***************************************************************************)
(* A machine that compiles one pattern beginning with "/**" and then       *)
(* matches paths, the search taken step by step.                           *)
(***************************************************************************)
SearchPatterns ==
  {<<"/", "*", "*">> \o t : t \in Strings({"/", "*", "?", "a"}, MaxTail)}

NextSearch ==
  \/ \E p \in SearchPatterns : SetPatternFresh(p)
  \/ SetPatternStep
  \/ SetPatternReturn
  \/ \E x \in Paths : MatchCall(x)
  \/ TryMatchHeadReturn
  \/ TryMatchSelectEdge
  \/ TryMatchExhausted
  \/ TryMatchResume
  \/ MatchReturn

SpecSearch == Init /\ [][NextSearch]_vars

\* the step-by-step calls end as the functions setPattern and match say
StepsAgree ==
  /\ pc = "idle" /\ ret \in MatchOutcomes => ret = match(nodesArray, path)
  /\ pc = "idle" /\ ret = "void" /\ pattern # <<>> =>
       nodesArray = setPattern(SubSeq(nodesArray, 1,
                                 Len(nodesArray) - Len(setPattern(<<>>, pattern))),
                               pattern)

(***************************************************************************)
(* One run of a fresh machine on one pattern and one path, as main makes   *)
(* it: [standardizePattern,] setPattern, match.  The pattern and the path  *)
(* are drawn when the run starts.                                          *)
(***************************************************************************)
\* the patterns and paths of the examples
ExamplePatterns ==
  { <<"/", "a", "*", "b">>, <<"/", "a", "/", "*", "*", "/", "b">>,
    <<"/", "a", "?", "c">>, <<"/", "*", ".", "t", "x", "t">>,
    <<"/", "a", "*", "a">> }
ExamplePaths ==
  { <<"/", "a", "b">>, <<"/", "a", "/", "b">>, <<"/", "a", "/", "x", "/", "b">>,
    <<"/", "a", "/", "x", "/", "y", "/", "b">>, <<"/", "a", "b", "c">>,
    <<"/", "a", "c">>, <<"/", "a", "b", "b", "c">>,
    <<"/", "a", ".", "b", ".", "t", "x", "t">>, <<"/", "a", "a", "a", "a">> }

FnPatterns == Strings(PatternChars, MaxFnPatLen) \cup ExamplePatterns
FnPaths == Strings(PathChars, MaxFnPathLen) \cup ExamplePaths

\* the state of a run that has drawn its pattern p and its path x
RunStart(p, x, at) ==
  /\ arg = p
  /\ pattern = p
  /\ path = x
  /\ pc = at
  /\ nodesArray = <<>>
  /\ patternPos = 0
  /\ previousStarNodeIdx = -1
  /\ stack = <<>>
  /\ rv = "none"
  /\ ret = "none"
  /\ prev = "none"
  /\ compiled = <<>>

\* main: standardizePattern(pattern)
MainStandardize ==
  /\ pc = "main"
  /\ pattern' = standardizePattern(pattern)
  /\ pc' = "standardized"
  /\ UNCHANGED <<nodesArray, patternPos, previousStarNodeIdx, path, stack, rv,
                 ret, prev, compiled, arg>>

\* main: sm.setPattern(pattern), the whole call
RunSetPattern ==
  /\ pc \in {"input", "standardized"}
  /\ nodesArray' = setPattern(nodesArray, pattern)
  /\ pc' = "compiled"
  /\ ret' = "void"
  /\ UNCHANGED <<pattern, patternPos, previousStarNodeIdx, path, stack, rv,
                 prev, compiled, arg>>

\* main: sm.match(pathToMatch), the whole call
RunMatch ==
  /\ pc = "compiled"
  /\ ret' = match(nodesArray, path)
  /\ pc' = "done"
  /\ UNCHANGED <<nodesArray, pattern, patternPos, previousStarNodeIdx, path,
                 stack, rv, prev, compiled, arg>>

\* setPattern and match on the pattern as given
InitFn == \E p \in FnPatterns, x \in FnPaths : RunStart(p, x, "input")
NextFn == RunSetPattern \/ RunMatch
SpecFn == InitFn /\ [][NextFn]_vars

\* main's sequence: standardizePattern, setPattern, match
InitMain == \E p \in FnPatterns, x \in FnPaths : RunStart(p, x, "main")
NextMain == MainStandardize \/ RunSetPattern \/ RunMatch
SpecMain == InitMain /\ [][NextMain]_vars

(***************************************************************************)
(* Helpers of the properties.                                              *)
(***************************************************************************)
\* the positions (1-based) of character c in s
Positions(s, c) == {i \in 1..Len(s) : s[i] = c}

Has(s, c) == Positions(s, c) # {}

WildcardFree(s) == ~Has(s, "*") /\ ~Has(s, "?")

EndsWithSeparator(s) == s # <<>> /\ s[Len(s)] = PATH_SEPARATOR

StartsWith(s, prefix) ==
  Len(s) >= Len(prefix) /\ SubSeq(s, 1, Len(prefix)) = prefix

EndsWith(s, suffix) ==
  Len(s) >= Len(suffix) /\ SubSeq(s, Len(s) - Len(suffix) + 1, Len(s)) = suffix

\* a run has matched a non-empty path against a non-empty pattern
RunDone == pc = "done" /\ arg # <<>> /\ path # <<>>

(***************************************************************************)
(* Properties of a machine under any sequence of calls (Spec).             *)
(***************************************************************************)
\* C1: misuse is never reported as a boolean and never passes silently:
\* setPattern does not return normally from an empty pattern, and match
\* of an empty path ends in the failure, never in false (or true).
C1_MisuseSignalled ==
  /\ pc = "idle" /\ ret = "void" => pattern # <<>>
  /\ pc = "idle" /\ ret \in MatchOutcomes /\ path = <<>> => ret = "throw"

\* a step of a match call: the call itself, or a step of the search
MatchStep == pc = "match" \/ pc' = "match" \/ ret' \in MatchOutcomes

\* C8: no step of match or tryMatchPatternPart changes the node collection,
\* and a match that repeats the preceding match's path on the same graph
\* ends as that one did.
C8_MatchLeavesGraph ==
  [][/\ MatchStep => nodesArray' = nodesArray
     /\ pc' = "idle" /\ prev' # "none" => ret' = prev']_vars

\* a repeated search over a graph with a back edge has returned
C8_Witness ==
  /\ pc = "idle" /\ prev \in {"true", "false"} /\ ret = prev
  /\ \E i \in 1..Len(nodesArray) : \E k \in 1..Len(nodesArray[i]) :
       /\ nodesArray[i][k].nextNodeId >= 0
       /\ nodesArray[i][k].nextNodeId < i - 1

\* C9: match of a non-empty path on a machine with no nodes fails with the
\* error: it returns neither true nor false.
C9_NoNodesThrows ==
  pc = "idle" /\ ret \in MatchOutcomes /\ path # <<>> /\ nodesArray = <<>>
    => ret = "throw"

\* match of a non-empty path has thrown on a machine that was given only
\* the empty pattern
C9_Witness ==
  /\ pc = "idle" /\ ret = "throw" /\ path # <<>> /\ nodesArray = <<>>
  /\ compiled = <<>>

\* the priorities of the edges of a node never decrease along its list
RankSorted(edges) ==
  \A k \in 1..(Len(edges) - 1) :
    ~compare_edges_priority(edges[k + 1], edges[k])

\* C12: after every addEdge of a compilation (a step adds at most one edge
\* to a node) the edge list of each node is sorted by priority, Exact before
\* End before SegmentChar before Any, and its edges of equal priority are in
\* the order of their insertion: those the node had, in their order, and
\* then the new one.
C12_EdgesStableSorted ==
  [][\A i \in 1..Len(nodesArray') :
       /\ RankSorted(nodesArray'[i])
       /\ i <= Len(nodesArray) =>
            \A t \in {eOneSymbol, eEndOfLine, eAnyPathSegmentSymbol, eAnySymbol} :
              StartsWith(EdgesOfType(nodesArray'[i], t),
                         EdgesOfType(nodesArray[i], t))]_vars

\* in every order std::sort may leave, the priorities never decrease
EdgesRankSorted ==
  \A i \in 1..Len(nodesArray) : RankSorted(nodesArray[i])

\* t is SUCCESS or the index of a node of the collection
ValidTarget(t) ==
  t = SUCCESS_NODE_IDX \/ (0 <= t /\ t < Len(nodesArray))

\* C13: during and after setPattern the target of every edge is SUCCESS or
\* the index of an existing node, and every call of tryMatchPatternPart is
\* on SUCCESS or on an existing node, so that it never indexes the node
\* collection out of range.
C13_TargetsValid ==
  /\ \A i \in 1..Len(nodesArray) : \A k \in 1..Len(nodesArray[i]) :
       ValidTarget(nodesArray[i][k].nextNodeId)
  /\ \A j \in 1..Len(stack) : ValidTarget(stack[j].nodeIdx)

\* a search has followed an edge to the last node of a graph of several
\* nodes and is reading that node's edges
C13_Witness ==
  /\ pc = "match" /\ Len(stack) >= 2 /\ Len(nodesArray) >= 2
  /\ top.nodeIdx = lastNodeIdx(nodesArray)
  /\ tryMatchHead(top) = "none"

\* the nodes (0-based) reached from those of S by following edges
RECURSIVE ReachableFrom(_, _)
ReachableFrom(nodes, S) ==
  LET T == S \cup {t \in 0..(Len(nodes) - 1) :
                     \E i \in S : \E k \in 1..Len(nodes[i + 1]) :
                       nodes[i + 1][k].nextNodeId = t}
  IN  IF T = S THEN S ELSE ReachableFrom(nodes, T)

HasEdgeTo(edges, t) == \E k \in 1..Len(edges) : edges[k].nextNodeId = t

HasEndEdge(edges) ==
  \E k \in 1..Len(edges) :
    edges[k].symbol.stype = eEndOfLine /\ edges[k].nextNodeId = SUCCESS_NODE_IDX

SuccessReachable(nodes) ==
  \E i \in ReachableFrom(nodes, {0}) : HasEdgeTo(nodes[i + 1], SUCCESS_NODE_IDX)

\* C14: after setPattern has returned for a non-empty pattern every node has
\* an outgoing edge and SUCCESS is reached from node 0 by following edges:
\* every node but the last has an edge to the next node, and the last node
\* has an End edge to SUCCESS.
C14_ChainToSuccess ==
  pc = "idle" /\ ret = "void" /\ pattern # <<>> =>
    /\ \A i \in 1..Len(nodesArray) :
         /\ nodesArray[i] # <<>>
         /\ i < Len(nodesArray) => HasEdgeTo(nodesArray[i], i)
         /\ i = Len(nodesArray) => HasEndEdge(nodesArray[i])
    /\ SuccessReachable(nodesArray)

\* the number of nodes after the first k compilations
RECURSIVE NodesAfter(_)
NodesAfter(k) ==
  IF k = 0 THEN 0 ELSE NodesAfter(k - 1) + Len(setPattern(<<>>, compiled[k]))

\* what holds of the graph after any number of compilations: every node has
\* an edge, SUCCESS is reached from node 0, and among the nodes of one
\* compilation each has an edge to the next and the last an End edge
ChainWithinEachPattern ==
  pc = "idle" /\ compiled # <<>> =>
    /\ \A i \in 1..Len(nodesArray) :
         /\ nodesArray[i] # <<>>
         /\ IF \E k \in 1..Len(compiled) : i = NodesAfter(k)
              THEN HasEndEdge(nodesArray[i])
              ELSE HasEdgeTo(nodesArray[i], i)
    /\ SuccessReachable(nodesArray)

\* the edge that call i of the search has followed into call i + 1
FollowedEdge(i) == nodesArray[stack[i].nodeIdx + 1][stack[i].edgeIdx + 1]

\* C15: an Any edge matches every character of a path, the separator
\* included, and matches only where the path has a character: no call of the
\* search has followed an Any edge from the position that equals the path
\* length, where the input is the end marker.
C15_AnyNeedsCharacter ==
  /\ \A c \in PathChars : InputSymbol_match(InputSymbol(eAnySymbol), c)
  /\ \A i \in 1..(Len(stack) - 1) :
       FollowedEdge(i).symbol.stype = eAnySymbol => stack[i].pathPos < Len(path)

\* C16: once a first non-empty pattern has been compiled, no step of a later
\* setPattern changes or removes a node that a completed compilation left
\* (nodes are only appended), no node appended after the first compilation
\* is reached from node 0, and every match ends with the result of the first
\* pattern.
C16_LaterPatternsOnlyAppend ==
  [][compiled # <<>> =>
       \* a later call starts on the nodes of the completed compilations
       /\ pc = "idle" /\ pc' = "setPattern" =>
            Len(nodesArray) = NodesAfter(Len(compiled))
       \* and each of its steps keeps them and their edges
       /\ nodesArray' # nodesArray =>
            /\ \A i \in 1..NodesAfter(Len(compiled)) :
                 i <= Len(nodesArray') /\ nodesArray'[i] = nodesArray[i]
            /\ ReachableFrom(nodesArray', {0}) \subseteq 0..(NodesAfter(1) - 1)
       \* a match that ends, ends with the first pattern's result
       /\ pc' = "idle" /\ ret' \in {"true", "false"}
             /\ (pc = "match" \/ path' # path \/ ret' # ret) =>
            ret' = match(setPattern(<<>>, compiled[1]), path')]_vars

\* after a second compilation a match has ended with the result of the first
\* pattern, which is not the result of the second pattern on its own
C16_Witness ==
  /\ pc = "idle" /\ Len(compiled) >= 2 /\ ret \in {"true", "false"}
  /\ ret # match(setPattern(<<>>, compiled[2]), path)

\* the calls of tryMatchPatternPart that are active: call i is at position
\* i - 1, and a call that has made a recursive call is at a position within
\* the path (the end marker's included) and on a node of the graph
StackShape ==
  /\ Len(stack) <= Len(path) + 2
  /\ \A i \in 1..Len(stack) :
       /\ stack[i].pathPos = i - 1
       /\ i < Len(stack) =>
            stack[i].pathPos <= Len(path) /\ stack[i].nodeIdx >= 0

\* the largest edgeCount of a node
MaxEdgeCount ==
  IF nodesArray = <<>> THEN 0
  ELSE CHOOSE n \in {Len(nodesArray[i]) : i \in 1..Len(nodesArray)} :
         \A i \in 1..Len(nodesArray) : Len(nodesArray[i]) <= n

\* how far call i has come: twice the edges it has finished, plus one for
\* being active, plus one while the value of its recursive call is pending;
\* digit 0 is match itself, holding the value of the outermost call
ProgressDigit(i) ==
  IF i = 0 THEN (IF stack = <<>> /\ rv # "none" THEN 1 ELSE 0)
  ELSE IF i > Len(stack) THEN 0
  ELSE 2 * stack[i].edgeIdx + 1 + (IF i = Len(stack) /\ rv # "none" THEN 1 ELSE 0)

\* the digits of the calls 0..i read as a number in base 2 * MaxEdgeCount + 3,
\* the outermost call's digit the most significant
RECURSIVE ProgressUpTo(_)
ProgressUpTo(i) ==
  IF i = 0 THEN ProgressDigit(0)
  ELSE ProgressUpTo(i - 1) * (2 * MaxEdgeCount + 3) + ProgressDigit(i)

\* a number bounded by the graph and the path that every step of a search
\* increases
Progress == ProgressUpTo(Len(path) + 2)

C4_LiteralExact ==
  RunDone /\ WildcardFree(arg) =>
    /\ ret \in {"true", "false"}
    /\ ret = "true" <=> path = arg

\* a literal pattern of several characters, a separator among them, has matched
C4_Witness ==
  /\ RunDone /\ WildcardFree(arg) /\ ret = "true"
  /\ Len(arg) >= 2 /\ Has(arg, PATH_SEPARATOR)

\* the pattern is A * B with A and B free of wildcards
OneStar(s) == Cardinality(Positions(s, "*")) = 1 /\ ~Has(s, "?")
\* the pattern is A ? B with A and B free of wildcards
OneQuestion(s) == Cardinality(Positions(s, "?")) = 1 /\ ~Has(s, "*")
\* the position of the only c in s
TheOne(s, c) == CHOOSE i \in Positions(s, c) : TRUE
\* what stands before and after position i of s
Before(s, i) == SubSeq(s, 1, i - 1)
After(s, i) == SubSeq(s, i + 1, Len(s))

\* x = A \o M \o B for an M without separator
StarMatches(A, B, x) ==
  /\ Len(x) >= Len(A) + Len(B)
  /\ StartsWith(x, A)
  /\ EndsWith(x, B)
  /\ ~Has(SubSeq(x, Len(A) + 1, Len(x) - Len(B)), PATH_SEPARATOR)

\* C5: the pattern A * B (A, B without wildcards) matches the path X exactly
\* when X = A M B for some M, possibly empty, without separator.
C5_StarInSegment ==
  RunDone /\ OneStar(arg) =>
    (ret = "true" <=>
       StarMatches(Before(arg, TheOne(arg, "*")), After(arg, TheOne(arg, "*")), path))

\* A * B with B not empty has matched a path whose M is not empty
C5_Witness ==
  /\ RunDone /\ OneStar(arg) /\ ret = "true"
  /\ After(arg, TheOne(arg, "*")) # <<>>
  /\ Len(path) >= Len(arg) + 1

\* C7: the pattern A ? B (A, B without wildcards) matches the path X exactly
\* when X = A c B for one character c that is not the separator.
C7_QuestionOneChar ==
  RunDone /\ OneQuestion(arg) =>
    (ret = "true" <=>
       /\ Len(path) = Len(arg)
       /\ \A j \in 1..Len(arg) :
            IF j = TheOne(arg, "?")
              THEN path[j] # PATH_SEPARATOR
              ELSE path[j] = arg[j])

\* A ? B with A and B not empty has matched
C7_Witness ==
  /\ RunDone /\ OneQuestion(arg) /\ ret = "true"
  /\ Before(arg, TheOne(arg, "?")) # <<>>
  /\ After(arg, TheOne(arg, "?")) # <<>>

\* the node references reached from those of S by one edge whose symbol
\* matches c
EdgeTargets(nodes, S, c) ==
  UNION { { nodes[n + 1][k].nextNodeId :
              k \in {j \in 1..Len(nodes[n + 1]) :
                       InputSymbol_match(nodes[n + 1][j].symbol, c)} } :
          n \in {m \in S : m >= 0} }

\* the node references some sequence of i edges from node 0 leads to, the
\* edges' symbols matching the first i of the path's characters and end marker
RECURSIVE ReachedAfter(_, _, _)
ReachedAfter(nodes, x, i) ==
  IF i = 0
    THEN {0}
    ELSE EdgeTargets(nodes, ReachedAfter(nodes, x, i - 1), charAt(x, i - 1))

\* some sequence of edges leads from node 0 to SUCCESS, its symbols matching
\* the path's characters and then the end marker
Accepts(nodes, x) == SUCCESS_NODE_IDX \in ReachedAfter(nodes, x, Len(x) + 1)

\* C10: match returns true exactly when some sequence of edges from node 0 to
\* SUCCESS matches the path's characters followed by the end marker, whatever
\* the order in which the edges are tried.
C10_BacktrackingExhaustive ==
  pc = "done" /\ matchEntry(nodesArray, path) = "search" =>
    (ret = "true" <=> Accepts(nodesArray, path))

\* "/a*a" has matched "/aaaa", where the first a that follows is the wrong one
C10_Witness ==
  /\ pc = "done" /\ ret = "true"
  /\ arg = <<"/", "a", "*", "a">>
  /\ path = <<"/", "a", "a", "a", "a">>

\* the graph without the back edges: the edges of a node to a node before it
WithoutBackEdges(nodes) ==
  [i \in 1..Len(nodes) |->
     SelectSeq(nodes[i], LAMBDA e : ~(0 <= e.nextNodeId /\ e.nextNodeId < i - 1))]

\* C17: the SegmentChar back edges from the node of a literal to the node of
\* the segment's wildcard do not change which paths are accepted: match on
\* the graph without them returns what match returns on the graph that
\* setPattern builds.
C17_BackEdgesRedundant ==
  pc = "done" => ret = match(WithoutBackEdges(nodesArray), path)

\* a path has been accepted by a graph with two back edges
C17_Witness ==
  /\ pc = "done" /\ ret = "true"
  /\ \E i, j \in 1..Len(nodesArray) :
       /\ i # j
       /\ WithoutBackEdges(nodesArray)[i] # nodesArray[i]
       /\ WithoutBackEdges(nodesArray)[j] # nodesArray[j]

(***************************************************************************)
(* Runs on a pattern A/**/B and a path A/s1/.../sk/B (SpecGlob).           *)
(***************************************************************************)
\* the strings A and B: literal characters and separators
Lits == Strings(PathChars, MaxLit)
\* the segments s1..sk: no separator in a segment
Segments == Strings(SegmentChars, MaxSegLen)
SegLists == UNION {[1..k -> Segments] : k \in 0..MaxSegs}

\* s1 "/" s2 "/" ... sk "/"
RECURSIVE JoinSegs(_)
JoinSegs(segs) ==
  IF segs = <<>>
    THEN <<>>
    ELSE Head(segs) \o <<PATH_SEPARATOR>> \o JoinSegs(Tail(segs))

GlobPattern(A, B) == A \o <<"/", "*", "*", "/">> \o B
GlobPath(A, segs, B) == A \o <<PATH_SEPARATOR>> \o JoinSegs(segs) \o B

\* every pattern A/**/B with every path A/s1/.../sk/B, k >= 0
GlobCases ==
  { [pattern |-> GlobPattern(t[1], t[2]), path |-> GlobPath(t[1], t[3], t[2])] :
      t \in Lits \X Lits \X SegLists }

InitGlob == \E g \in GlobCases : RunStart(g.pattern, g.path, "input")
SpecGlob == InitGlob /\ [][NextFn]_vars

\* C6: for A and B without wildcards the pattern A/**/B matches A/B (no
\* segment) and A/s1/.../sk/B for every k >= 1 and all segments s1..sk.
C6_DoubleStarSegments ==
  pc = "done" /\ [pattern |-> arg, path |-> path] \in GlobCases => ret = "true"

\* A/**/B with A and B not empty has matched a path with two segments
C6_Witness ==
  \E A \in Lits \ {<<>>}, B \in Lits \ {<<>>}, segs \in SegLists :
    /\ Len(segs) >= 2
    /\ pc = "done" /\ arg = GlobPattern(A, B) /\ path = GlobPath(A, segs, B)
    /\ ret = "true"

(***************************************************************************)
(* Properties of main's sequence standardizePattern, setPattern, match     *)
(* (SpecMain).                                                             *)
(***************************************************************************)
Standardized == pc \in {"standardized", "compiled", "done"}

\* what standardizePattern may put before a pattern
Prefixes == {<<>>, <<"/">>, <<"/", "*", "*", "/">>}

\* the root directory path a literal pattern that ends in the separator names
DirectoryOf(p) == IF StartsWith(p, <<PATH_SEPARATOR>>) THEN p ELSE <<PATH_SEPARATOR>> \o p

\* C2: standardizePattern appends ** to every pattern whose last character is
\* the separator, prefixed or not, and to no other pattern; the compiled
\* result then matches every path beneath that directory.
C2_TrailingSeparator ==
  /\ Standardized =>
       pattern \in { pre \o arg \o (IF EndsWithSeparator(arg) THEN <<"*", "*">> ELSE <<>>) :
                       pre \in Prefixes }
  /\ pc = "done" /\ EndsWithSeparator(arg) /\ WildcardFree(arg)
        /\ StartsWith(path, DirectoryOf(arg))
       => ret = "true"

\* C3: a non-empty pattern P that starts with neither the separator nor **
\* and does not end with the separator is compiled as "/**/" P, nothing else
\* added, and matches a non-empty path as setPattern("/**/" P) does.
C3_ImplicitPrefix ==
  pc = "done" /\ arg # <<>> /\ path # <<>>
     /\ ~StartsWith(arg, <<PATH_SEPARATOR>>) /\ ~StartsWith(arg, <<"*", "*">>)
     /\ ~EndsWithSeparator(arg)
    => /\ pattern = <<"/", "*", "*", "/">> \o arg
       /\ ret = match(setPattern(<<>>, <<"/", "*", "*", "/">> \o arg), path)

=============================================================================
